---- MODULE Spec2Model ----
(***************************************************************************)
(* A model of the CoordinateSanitizer class of src/src/index.js.           *)
(*                                                                         *)
(* Text is a sequence of characters.  A character is a string: an ASCII    *)
(* character stands for itself, a character outside ASCII (or a control    *)
(* character) is written by its code point, "U+00B0".  The regular         *)
(* expressions of the source are kept as syntax trees and run by a small   *)
(* matcher, so a pattern of the model can be read against the pattern of   *)
(* the source.                                                             *)
(*                                                                         *)
(* Numbers are fixed-point integers counting units of 1/Unit, which makes  *)
(* h + m/60 + s/3600 exact for fields with at most two fraction digits.    *)
(* IEEE rounding is not modelled.  JavaScript's negative zero is modelled  *)
(* as 0: every operation the source applies to a number (<, >=, Math.abs,  *)
(* toString, toFixed, + and * followed by one of these) treats -0 as 0.    *)
(***************************************************************************)
EXTENDS Integers, Sequences, FiniteSets, TLC

VARIABLES
  options,    \* this.options
  lastIndex,  \* the lastIndex of every regular expression the instance keeps
  constructedWith,  \* the argument the constructor was called with
  preset,     \* the argument of createPreset, NoPreset for an instance made by new
  used,       \* whether a call on this instance has already been completed
  pc, input, src, result

vars == <<options, lastIndex, constructedWith, preset, used, pc, input, src, result>>

-----------------------------------------------------------------------------
(* Characters *)

Chars(str) == [i \in 1..Len(str) |-> SubSeq(str, i, i)]

LowerSeq == Chars("abcdefghijklmnopqrstuvwxyz")
UpperSeq == Chars("ABCDEFGHIJKLMNOPQRSTUVWXYZ")
DigitSeq == Chars("0123456789")

Lower == {LowerSeq[i] : i \in 1..26}
Upper == {UpperSeq[i] : i \in 1..26}
Digit == {DigitSeq[i] : i \in 1..10}

DEG    == "U+00B0"
ORDM   == "U+00BA"
ORDF   == "U+00AA"
PRIME  == "U+2032"
DPRIME == "U+2033"
ENDASH == "U+2013"
EMDASH == "U+2014"
MINUS  == "U+2212"
MIDDOT == "U+00B7"
BULLET == "U+2022"
TAB    == "U+0009"
LF     == "U+000A"
NUL    == "U+0000"
DEL    == "U+007F"
NBSP   == "U+00A0"
QUOT   == Chars("\"")[1]
APOS   == "'"

\* \s of a JavaScript regular expression (the members the model's inputs use)
WS == {" ", TAB, LF, NBSP}
\* [\x00-\x1F\x7F]
Control == {NUL, TAB, LF, DEL}
\* \w
WordChar == Lower \cup Upper \cup Digit \cup {"_"}

\* String.prototype.toUpperCase, one character at a time
UpperOf(c) == IF c \in Lower THEN UpperSeq[CHOOSE i \in 1..26 : LowerSeq[i] = c] ELSE c
LowerOf(c) == IF c \in Upper THEN LowerSeq[CHOOSE i \in 1..26 : UpperSeq[i] = c] ELSE c

toUpperCase(s) == [i \in 1..Len(s) |-> UpperOf(s[i])]

SetMax(S) == CHOOSE x \in S : \A y \in S : y <= x
SetMin(S) == CHOOSE x \in S : \A y \in S : x <= y

-----------------------------------------------------------------------------
(* Regular expressions: syntax trees and a matcher.                         *)
(* Ends(re, s, P) is the set of positions at which a match of re that       *)
(* starts at a position of P can end (a position is the index of the next   *)
(* character to read).                                                      *)

Cls(S)          == <<"cls", S>>
NotCls(S)       == <<"ncls", S>>
AnyChar         == <<"ncls", {}>>
Cat(rs)         == <<"cat", rs>>
Alt(rs)         == <<"alt", rs>>
Rep(r, lo, hi)  == <<"rep", r, lo, hi>>
Inf             == 0 - 1
Star(r)         == Rep(r, 0, Inf)
Plus(r)         == Rep(r, 1, Inf)
Opt(r)          == Rep(r, 0, 1)
Ch(c)           == Cls({c})
\* a literal, and a literal under the i flag
Lit(str)        == Cat([i \in 1..Len(str) |-> Ch(SubSeq(str, i, i))])
LitI(str)       == Cat([i \in 1..Len(str) |->
                        Cls({LowerOf(SubSeq(str, i, i)), UpperOf(SubSeq(str, i, i))})])
ClsI(S)         == Cls({LowerOf(c) : c \in S} \cup {UpperOf(c) : c \in S})
D               == Cls(Digit)
S_              == Cls(WS)

RECURSIVE Ends(_, _, _), CatEnds(_, _, _, _), AltEnds(_, _, _, _), RepEnds(_, _, _, _, _)
Ends(re, s, P) ==
  IF P = {} THEN {}
  ELSE IF re[1] = "cls"  THEN {p + 1 : p \in {q \in P : q <= Len(s) /\ s[q] \in re[2]}}
  ELSE IF re[1] = "ncls" THEN {p + 1 : p \in {q \in P : q <= Len(s) /\ s[q] \notin re[2]}}
  ELSE IF re[1] = "cat"  THEN CatEnds(re[2], 1, s, P)
  ELSE IF re[1] = "alt"  THEN AltEnds(re[2], 1, s, P)
  ELSE RepEnds(re[2], re[3], re[4], s, P)

CatEnds(rs, k, s, P) ==
  IF k > Len(rs) THEN P ELSE CatEnds(rs, k + 1, s, Ends(rs[k], s, P))

AltEnds(rs, k, s, P) ==
  IF k > Len(rs) THEN {} ELSE Ends(rs[k], s, P) \cup AltEnds(rs, k + 1, s, P)

\* every repeated expression of the source consumes at least one character,
\* so the positions grow and the recursion ends
RepEnds(r, lo, hi, s, P) ==
  IF P = {} THEN {}
  ELSE IF lo > 0 THEN RepEnds(r, lo - 1, IF hi = Inf THEN Inf ELSE hi - 1, s, Ends(r, s, P))
  ELSE IF hi = 0 THEN P
  ELSE P \cup RepEnds(r, 0, IF hi = Inf THEN Inf ELSE hi - 1, s, Ends(r, s, P))

\* /^re$/.test(s)
FullMatch(re, s) == (Len(s) + 1) \in Ends(re, s, {1})
\* /re/.test(s)
Test(re, s) == Ends(re, s, 1..(Len(s) + 1)) # {}

\* The capture groups of /^seg1 seg2 ... segn$/: the end position of every
\* segment, each segment taking the match a backtracking matcher prefers
\* (the longest one, or the shortest one when the segment is lazy) among
\* those that let the rest of the pattern match.
RECURSIVE GroupEnds(_, _, _, _, _)
GroupEnds(segs, lazy, k, s, i) ==
  IF k > Len(segs) THEN <<>>
  ELSE LET rest == Cat(SubSeq(segs, k + 1, Len(segs)))
           ok   == {e \in Ends(segs[k], s, {i}) : (Len(s) + 1) \in Ends(rest, s, {e})}
           e    == IF lazy[k] THEN SetMin(ok) ELSE SetMax(ok)
       IN  <<e>> \o GroupEnds(segs, lazy, k + 1, s, e)

\* the text of segment k of a match
Group(s, ends, k) == SubSeq(s, IF k = 1 THEN 1 ELSE ends[k - 1], ends[k] - 1)

Greedy(segs) == [k \in 1..Len(segs) |-> FALSE]

\* String.prototype.replace(/re/g, by): leftmost match first, each match the
\* longest one (what the greedy quantifiers of the source's patterns prefer)
RECURSIVE ReplaceAll(_, _, _, _)
ReplaceAll(re, by, s, i) ==
  IF i > Len(s) THEN <<>>
  ELSE LET es == Ends(re, s, {i})
       IN  IF es = {} THEN <<s[i]>> \o ReplaceAll(re, by, s, i + 1)
           ELSE by \o ReplaceAll(re, by, s, SetMax(es))

\* String.prototype.match(/re/g): the matched texts, or <<>> for null
RECURSIVE MatchAll(_, _, _)
MatchAll(re, s, i) ==
  IF i > Len(s) THEN <<>>
  ELSE LET es == Ends(re, s, {i})
       IN  IF es = {} THEN MatchAll(re, s, i + 1)
           ELSE <<SubSeq(s, i, SetMax(es) - 1)>> \o MatchAll(re, s, SetMax(es))

\* String.prototype.trim
RECURSIVE TrimLeft(_), TrimRight(_)
TrimLeft(s)  == IF s # <<>> /\ Head(s) \in WS THEN TrimLeft(Tail(s)) ELSE s
TrimRight(s) == IF s # <<>> /\ s[Len(s)] \in WS THEN TrimRight(SubSeq(s, 1, Len(s) - 1)) ELSE s
trim(s) == TrimRight(TrimLeft(s))

-----------------------------------------------------------------------------
(* cleanInput *)

\* cleanInput without the two replacements that fold the separators
cleanInput_SeparatorsKept(s) ==
  LET s1 == ReplaceAll(Cls({QUOT, APOS}), <<QUOT>>, s, 1)
      s2 == ReplaceAll(Cls({DEG, ORDM, ORDF}), <<"d">>, s1, 1)
      s3 == ReplaceAll(Cls({PRIME, APOS}), <<APOS>>, s2, 1)
      s4 == ReplaceAll(Cls({DPRIME, QUOT}), <<QUOT>>, s3, 1)
      s5 == ReplaceAll(Cls({ENDASH, EMDASH, MINUS}), <<"-">>, s4, 1)
      s8 == ReplaceAll(Cat(<<Star(S_), Ch(":"), Star(S_)>>), <<":">>, s5, 1)
      s9 == ReplaceAll(Plus(S_), <<" ">>, s8, 1)
  IN  trim(s9)

cleanInput(s) ==
  LET s1 == ReplaceAll(Cls({QUOT, APOS}), <<QUOT>>, s, 1)
      s2 == ReplaceAll(Cls({DEG, ORDM, ORDF}), <<"d">>, s1, 1)
      s3 == ReplaceAll(Cls({PRIME, APOS}), <<APOS>>, s2, 1)
      s4 == ReplaceAll(Cls({DPRIME, QUOT}), <<QUOT>>, s3, 1)
      s5 == ReplaceAll(Cls({ENDASH, EMDASH, MINUS}), <<"-">>, s4, 1)
      s6 == ReplaceAll(Cls({MIDDOT, BULLET}), <<",">>, s5, 1)
      s7 == ReplaceAll(Cat(<<Star(S_), Cls({",", ";"}), Star(S_)>>), <<",">>, s6, 1)
      s8 == ReplaceAll(Cat(<<Star(S_), Ch(":"), Star(S_)>>), <<":">>, s7, 1)
      s9 == ReplaceAll(Plus(S_), <<" ">>, s8, 1)
  IN  trim(s9)

-----------------------------------------------------------------------------
(* Numbers: fixed-point integers, Unit units to 1.                          *)

Unit == 3600 * 100

Abs(x) == IF x < 0 THEN -x ELSE x
Pow10(k) == [i \in 0..9 |-> IF i = 0 THEN 1 ELSE IF i = 1 THEN 10 ELSE IF i = 2 THEN 100
              ELSE IF i = 3 THEN 1000 ELSE IF i = 4 THEN 10000 ELSE IF i = 5 THEN 100000
              ELSE IF i = 6 THEN 1000000 ELSE IF i = 7 THEN 10000000
              ELSE IF i = 8 THEN 100000000 ELSE 1000000000][k]

DigitVal(c) == (CHOOSE i \in 1..10 : DigitSeq[i] = c) - 1
DigitChr(n) == DigitSeq[n + 1]

RECURSIVE NatOf(_)
NatOf(ds) == IF ds = <<>> THEN 0 ELSE 10 * NatOf(SubSeq(ds, 1, Len(ds) - 1)) + DigitVal(ds[Len(ds)])

RECURSIVE DigitsOf(_)
DigitsOf(n) == IF n < 10 THEN <<DigitChr(n)>> ELSE DigitsOf(n \div 10) \o <<DigitChr(n % 10)>>

\* the value of the fraction digits fs, in units (digit by digit, so that no
\* intermediate value leaves the integers TLC computes with)
RECURSIVE FracOf(_, _)
FracOf(fs, scale) ==
  IF fs = <<>> \/ scale = 0 THEN 0
  ELSE (DigitVal(Head(fs)) * scale) \div 10 + FracOf(Tail(fs), scale \div 10)

\* parseFloat of a text of the shape [+-]?\d+(\.\d+)?
parseFloat(t) ==
  LET neg  == t # <<>> /\ Head(t) = "-"
      body == IF t # <<>> /\ Head(t) \in {"+", "-"} THEN Tail(t) ELSE t
      dot  == {i \in 1..Len(body) : body[i] = "."}
      ip   == IF dot = {} THEN body ELSE SubSeq(body, 1, SetMin(dot) - 1)
      fp   == IF dot = {} THEN <<>> ELSE SubSeq(body, SetMin(dot) + 1, Len(body))
      mag  == NatOf(ip) * Unit + FracOf(fp, Unit)
  IN  IF neg THEN -mag ELSE mag

\* parseInt of a text of the shape [+-]?\d+
parseInt(t) ==
  LET neg  == t # <<>> /\ Head(t) = "-"
      body == IF t # <<>> /\ Head(t) \in {"+", "-"} THEN Tail(t) ELSE t
  IN  IF neg THEN -(NatOf(body) * Unit) ELSE NatOf(body) * Unit

\* Math.floor
Floor(x) == (x \div Unit) * Unit

\* the first p fraction digits of r/Unit (0 <= r < Unit) as a number, and
\* what is left
RECURSIVE FracDigits(_, _)
FracDigits(r, p) ==
  IF p = 0 THEN [n |-> 0, rem |-> r]
  ELSE LET d    == (r * 10) \div Unit
           rest == FracDigits((r * 10) % Unit, p - 1)
       IN  [n |-> d * Pow10(p - 1) + rest.n, rem |-> rest.rem]

RECURSIVE PadLeft(_, _, _)
PadLeft(s, n, c) == IF Len(s) >= n THEN s ELSE PadLeft(<<c>> \o s, n, c)

\* Number.prototype.toFixed(p): round half up at the p-th fraction digit
toFixed(x, p) ==
  LET a    == Abs(x)
      fd   == FracDigits(a % Unit, p)
      n0   == (a \div Unit) * Pow10(p) + fd.n
      n    == IF 2 * fd.rem >= Unit THEN n0 + 1 ELSE n0
      ip   == DigitsOf(n \div Pow10(p))
      fp   == PadLeft(DigitsOf(n % Pow10(p)), p, "0")
      sign == IF x < 0 THEN <<"-">> ELSE <<>>
  IN  sign \o ip \o (IF p = 0 THEN <<>> ELSE <<".">> \o fp)

\* Number.prototype.toString of a number with a finite decimal expansion
RECURSIVE StripZeros(_)
StripZeros(s) == IF s # <<>> /\ s[Len(s)] = "0" THEN StripZeros(SubSeq(s, 1, Len(s) - 1)) ELSE s
toString(x) ==
  LET a  == Abs(x)
      fp == StripZeros(PadLeft(DigitsOf(FracDigits(a % Unit, 6).n), 6, "0"))
  IN  (IF x < 0 THEN <<"-">> ELSE <<>>) \o DigitsOf(a \div Unit)
        \o (IF fp = <<>> THEN <<>> ELSE <<".">> \o fp)

\* String.prototype.padStart(n, '0')
padStart(s, n) == PadLeft(s, n, "0")


-----------------------------------------------------------------------------
(* constructor: the options and the patterns *)

OptionKeys == {"outputFormat", "precision", "validateRanges", "strictMode"}

\* the defaults of the constructor; undef is the set of options whose value
\* is undefined
DefaultPrecision == 6
Defaults ==
  [outputFormat |-> "aladin", precision |-> DefaultPrecision, validateRanges |-> TRUE,
   strictMode |-> FALSE, undef |-> {}]

\* { ...defaults, ...given }: given.keys are the own properties of the
\* caller's object, given.undef those of them whose value is undefined
Construct(given) ==
  [outputFormat   |-> IF "outputFormat" \in given.keys THEN given.outputFormat
                      ELSE Defaults.outputFormat,
   precision      |-> IF "precision" \in given.keys THEN given.precision
                      ELSE Defaults.precision,
   validateRanges |-> IF "validateRanges" \in given.keys THEN given.validateRanges
                      ELSE Defaults.validateRanges,
   strictMode     |-> IF "strictMode" \in given.keys THEN given.strictMode
                      ELSE Defaults.strictMode,
   undef          |-> given.undef \cap given.keys]

\* the object {}: no own property (the values stand for nothing)
NoGiven ==
  [keys |-> {}, undef |-> {}, outputFormat |-> "aladin", precision |-> DefaultPrecision,
   validateRanges |-> TRUE, strictMode |-> FALSE]

\* the presets of createPreset
presets ==
  [aladin  |-> [NoGiven EXCEPT !.keys = {"outputFormat", "validateRanges"},
                               !.outputFormat = "aladin", !.validateRanges = TRUE],
   decimal |-> [NoGiven EXCEPT !.keys = {"outputFormat", "precision", "validateRanges"},
                               !.outputFormat = "decimal", !.precision = 6,
                               !.validateRanges = TRUE],
   loose   |-> [NoGiven EXCEPT !.keys = {"outputFormat", "validateRanges"},
                               !.outputFormat = "aladin", !.validateRanges = FALSE],
   strict  |-> [NoGiven EXCEPT !.keys = {"outputFormat", "validateRanges", "strictMode"},
                               !.outputFormat = "aladin", !.validateRanges = TRUE,
                               !.strictMode = TRUE]]

\* presets[preset] || {}
PresetGiven(name) == IF name \in DOMAIN presets THEN presets[name] ELSE NoGiven

\* createPreset ignoring its argument
createPreset_Bare(name) == Construct(NoGiven)

\* new CoordinateSanitizer(presets[preset] || {})
createPreset(name) == Construct(PresetGiven(name))

\* this.options.validateRanges taken as always true
ValidateRangesOn_Always(o) == TRUE

\* the truth value of this.options.validateRanges
ValidateRangesOn(o) == "validateRanges" \notin o.undef /\ o.validateRanges

SepH == Cat(<<Star(S_), Cls({"h", "H", ":"} \cup WS), Star(S_)>>)
SepD == Cat(<<Star(S_), Cls({"d", "D", DEG, ":"} \cup WS), Star(S_)>>)
SepM == Cat(<<Star(S_), Cls({"m", "M", ":", APOS, QUOT, PRIME} \cup WS), Star(S_)>>)
SepS == Cat(<<Star(S_), Star(Cls({"s", "S", QUOT, APOS, DPRIME} \cup WS))>>)
Secs == Cat(<<Rep(D, 1, 2), Opt(Cat(<<Ch("."), Plus(D)>>))>>)
Sign == Opt(Cls({"+", "-"}))
Dot  == NotCls({LF})

\* this.patterns, each pattern as the sequence of its groups and separators
raHMS         == <<Rep(D, 1, 2), SepH, Rep(D, 1, 2), SepM, Secs, SepS>>
raHMSCompact  == <<Rep(D, 2, 2), Rep(D, 2, 2), Cat(<<Rep(D, 2, 2), Opt(Cat(<<Ch("."), Plus(D)>>))>>)>>
raDecimal     == <<Cat(<<Rep(D, 1, 3), Opt(Cat(<<Ch("."), Plus(D)>>))>>), Opt(Cls({"d", DEG}))>>
decDMS        == <<Cat(<<Sign, Rep(D, 1, 2)>>), SepD, Rep(D, 1, 2), SepM, Secs, SepS>>
decDMSCompact == <<Cat(<<Sign, Rep(D, 2, 2)>>), Rep(D, 2, 2),
                   Cat(<<Rep(D, 2, 2), Opt(Cat(<<Ch("."), Plus(D)>>))>>)>>
decDecimal    == <<Cat(<<Sign, Rep(D, 1, 3), Opt(Cat(<<Ch("."), Plus(D)>>))>>), Opt(Cls({"d", DEG}))>>
combinedPattern == <<Plus(Dot), Cat(<<Star(S_), Cls({",", ";", MIDDOT, BULLET}), Star(S_)>>), Plus(Dot)>>
aladinFormat  ==
  Cat(<<Rep(D, 2, 2), S_, Rep(D, 2, 2), S_, Rep(D, 2, 2), Opt(Cat(<<Ch("."), Plus(D)>>)),
        Ch(","), S_, Sign, Rep(D, 2, 2), S_, Rep(D, 2, 2), S_, Rep(D, 2, 2),
        Opt(Cat(<<Ch("."), Plus(D)>>))>>)

Letters2 == Rep(ClsI(Upper), 2, Inf)
catalogPatterns == <<
  Cat(<<LitI("M"), Opt(S_), Plus(D)>>),
  Cat(<<LitI("NGC"), Opt(S_), Plus(D)>>),
  Cat(<<LitI("IC"), Opt(S_), Plus(D)>>),
  Cat(<<LitI("UGC"), Opt(S_), Plus(D)>>),
  Cat(<<LitI("PGC"), Opt(S_), Plus(D)>>),
  Cat(<<LitI("HIP"), Opt(S_), Plus(D)>>),
  Cat(<<LitI("HD"), Opt(S_), Plus(D)>>),
  Cat(<<LitI("SAO"), Opt(S_), Plus(D)>>),
  Cat(<<LitI("Sh2"), Opt(Cls({"-"} \cup WS)), Plus(D)>>),
  Cat(<<LitI("Barnard"), Opt(S_), Plus(D)>>),
  Cat(<<LitI("PK"), Opt(S_), Plus(Cls(Digit \cup {"+", "-", "."}))>>),
  Cat(<<LitI("LBN"), Opt(S_), Plus(D)>>),
  Cat(<<Letters2, Plus(S_), Letters2>>),
  Cat(<<Plus(D), Plus(S_), Letters2>>),
  Cat(<<ClsI(Upper), Plus(S_), Letters2>>) >>

\* a match of /^...$/ with groups: the ends of the segments, <<>> for null
Match(segs, lazy, s) ==
  IF FullMatch(Cat(segs), s) THEN GroupEnds(segs, lazy, 1, s, 1) ELSE <<>>

-----------------------------------------------------------------------------
(* results *)

NullError == [null |-> TRUE, prefix |-> "", arg |-> <<>>, num |-> 0, suffix |-> ""]
\* an error text: prefix, then the text arg or the number num, then suffix
Error(prefix, arg, num, suffix) ==
  [null |-> FALSE, prefix |-> prefix, arg |-> arg, num |-> num, suffix |-> suffix]

\* a parsed axis; keys are the properties the object has
NoAxis ==
  [keys |-> {}, isValid |-> FALSE, decimal |-> 0, whole |-> 0, minutes |-> 0, seconds |-> 0,
   format |-> "", error |-> NullError]
Axis(decimal, whole, minutes, seconds, format) ==
  [keys |-> {"isValid", "decimal", "whole", "minutes", "seconds", "format"}, isValid |-> TRUE,
   decimal |-> decimal, whole |-> whole, minutes |-> minutes, seconds |-> seconds,
   format |-> format, error |-> NullError]
\* AxisError losing the text the error names
AxisError_NoText(error) ==
  [NoAxis EXCEPT !.keys = {"isValid", "error"}, !.error = [error EXCEPT !.arg = <<>>]]

AxisError(error) == [NoAxis EXCEPT !.keys = {"isValid", "error"}, !.error = error]

\* metadata = {} has inputFormat "" and no ra/dec
NoMetadata == [inputFormat |-> "", outputFormat |-> "", ra |-> NoAxis, dec |-> NoAxis]

\* createResult losing the error
createResult_NoError(isValid, coordinates, error, metadata) ==
  [isValid |-> isValid, coordinates |-> coordinates, error |-> NullError, metadata |-> metadata]

createResult(isValid, coordinates, error, metadata) ==
  [isValid |-> isValid, coordinates |-> coordinates, error |-> error, metadata |-> metadata]

-----------------------------------------------------------------------------
(* conversions and range checks *)

hmsToDecimal(hours, minutes, seconds) == hours + minutes \div 60 + seconds \div 3600

decimalToHMS(decimal) ==
  LET hours          == Floor(decimal)
      minutesDecimal == (decimal - hours) * 60
      minutes        == Floor(minutesDecimal)
      seconds        == (minutesDecimal - minutes) * 60
  IN  [hours |-> hours, minutes |-> minutes, seconds |-> seconds]

dmsToDecimal(degrees, minutes, seconds) ==
  LET sign == IF degrees < 0 THEN -1 ELSE 1
  IN  sign * (Abs(degrees) + minutes \div 60 + seconds \div 3600)

decimalToDMS(decimal) ==
  LET sign           == IF decimal < 0 THEN -1 ELSE 1
      absDecimal     == Abs(decimal)
      degrees        == Floor(absDecimal) * sign
      minutesDecimal == (absDecimal - Floor(absDecimal)) * 60
      minutes        == Floor(minutesDecimal)
      seconds        == (minutesDecimal - minutes) * 60
  IN  [degrees |-> degrees, minutes |-> minutes, seconds |-> seconds]

\* validateRA with the upper bound taken as inclusive
validateRA_Inclusive(decimal) ==
  IF decimal < 0 \/ decimal > 24 * Unit
  THEN Error("RA out of range: ", <<>>, decimal, " (must be 0-24 hours)")
  ELSE NullError

validateRA(decimal) ==
  IF decimal < 0 \/ decimal >= 24 * Unit
  THEN Error("RA out of range: ", <<>>, decimal, " (must be 0-24 hours)")
  ELSE NullError

validateDEC(decimal) ==
  IF decimal < -90 * Unit \/ decimal > 90 * Unit
  THEN Error("DEC out of range: ", <<>>, decimal, " (must be -90 to +90 degrees)")
  ELSE NullError


-----------------------------------------------------------------------------
(* parsing one axis *)

\* parseRA rejecting minutes and seconds of 60 and more
parseRA_SixtyChecked(raPart) ==
  LET hms     == Match(raHMS, Greedy(raHMS), raPart)
      compact == Match(raHMSCompact, Greedy(raHMSCompact), raPart)
      dec     == Match(raDecimal, Greedy(raDecimal), raPart)
      Sexa(m, g1, g2, g3, format) ==
        LET hours   == parseInt(Group(raPart, m, g1))
            minutes == parseInt(Group(raPart, m, g2))
            seconds == parseFloat(Group(raPart, m, g3))
        IN  IF hours < 0 \/ minutes < 0 \/ seconds < 0
                 \/ minutes >= 60 * Unit \/ seconds >= 60 * Unit
            THEN AxisError(Error("Invalid RA format: ", raPart, 0,
                                 " (negative values not allowed in HMS)"))
            ELSE Axis(hmsToDecimal(hours, minutes, seconds), hours, minutes, seconds, format)
  IN  IF hms # <<>> THEN Sexa(hms, 1, 3, 5, "hms")
      ELSE IF compact # <<>> THEN Sexa(compact, 1, 2, 3, "hms-compact")
      ELSE IF dec # <<>>
        THEN LET decimal == parseFloat(Group(raPart, dec, 1))
                 c       == decimalToHMS(decimal)
             IN  Axis(decimal, c.hours, c.minutes, c.seconds, "decimal")
      ELSE AxisError(Error("Invalid RA format: ", raPart, 0, ""))

parseRA(raPart) ==
  LET hms     == Match(raHMS, Greedy(raHMS), raPart)
      compact == Match(raHMSCompact, Greedy(raHMSCompact), raPart)
      dec     == Match(raDecimal, Greedy(raDecimal), raPart)
      Sexa(m, g1, g2, g3, format) ==
        LET hours   == parseInt(Group(raPart, m, g1))
            minutes == parseInt(Group(raPart, m, g2))
            seconds == parseFloat(Group(raPart, m, g3))
        IN  IF hours < 0 \/ minutes < 0 \/ seconds < 0
            THEN AxisError(Error("Invalid RA format: ", raPart, 0,
                                 " (negative values not allowed in HMS)"))
            ELSE Axis(hmsToDecimal(hours, minutes, seconds), hours, minutes, seconds, format)
  IN  IF hms # <<>> THEN Sexa(hms, 1, 3, 5, "hms")
      ELSE IF compact # <<>> THEN Sexa(compact, 1, 2, 3, "hms-compact")
      ELSE IF dec # <<>>
        THEN LET decimal == parseFloat(Group(raPart, dec, 1))
                 c       == decimalToHMS(decimal)
             IN  Axis(decimal, c.hours, c.minutes, c.seconds, "decimal")
      ELSE AxisError(Error("Invalid RA format: ", raPart, 0, ""))

parseDEC(decPart) ==
  LET dms     == Match(decDMS, Greedy(decDMS), decPart)
      compact == Match(decDMSCompact, Greedy(decDMSCompact), decPart)
      dec     == Match(decDecimal, Greedy(decDecimal), decPart)
      Sexa(m, g1, g2, g3, format) ==
        LET degrees == parseInt(Group(decPart, m, g1))
            minutes == parseInt(Group(decPart, m, g2))
            seconds == parseFloat(Group(decPart, m, g3))
        IN  Axis(dmsToDecimal(degrees, minutes, seconds), degrees, minutes, seconds, format)
  IN  IF dms # <<>> THEN Sexa(dms, 1, 3, 5, "dms")
      ELSE IF compact # <<>> THEN Sexa(compact, 1, 2, 3, "dms-compact")
      ELSE IF dec # <<>>
        THEN LET decimal == parseFloat(Group(decPart, dec, 1))
                 c       == decimalToDMS(decimal)
             IN  Axis(decimal, c.degrees, c.minutes, c.seconds, "decimal")
      ELSE AxisError(Error("Invalid DEC format: ", decPart, 0, ""))

-----------------------------------------------------------------------------
(* formatting *)

Comma == <<",", " ">>

formatAladin(raResult, decResult) ==
  LET raFormatted  == padStart(toString(raResult.whole), 2) \o <<" ">>
                        \o padStart(toString(raResult.minutes), 2) \o <<" ">>
                        \o padStart(toFixed(raResult.seconds, 3), 6)
      decSign      == IF decResult.decimal >= 0 THEN <<"+">> ELSE <<>>
      decFormatted == decSign \o padStart(toString(decResult.whole), 2) \o <<" ">>
                        \o padStart(toString(Abs(decResult.minutes)), 2) \o <<" ">>
                        \o padStart(toFixed(Abs(decResult.seconds), 3), 6)
  IN  raFormatted \o Comma \o decFormatted

\* what formatting yields when toFixed throws its RangeError
RangeError == <<"RangeError">>

\* formatDecimal with the default precision, whatever is configured
formatDecimal_DefaultPrecision(o, raResult, decResult) ==
  toFixed(raResult.decimal, DefaultPrecision) \o Comma
    \o toFixed(decResult.decimal, DefaultPrecision)

\* toFixed(undefined) is toFixed(0); toFixed(p) throws unless 0 <= p <= 100
formatDecimal(o, raResult, decResult) ==
  LET precision == IF "precision" \in o.undef THEN 0 ELSE o.precision
  IN  IF precision \notin 0..100 THEN RangeError
      ELSE toFixed(raResult.decimal, precision) \o Comma \o toFixed(decResult.decimal, precision)

formatHMSDMS(raResult, decResult) ==
  LET raFormatted  == toString(raResult.whole) \o <<"h", " ">>
                        \o toString(raResult.minutes) \o <<"m", " ">>
                        \o toFixed(raResult.seconds, 3) \o <<"s">>
      decSign      == IF decResult.decimal >= 0 THEN <<"+">> ELSE <<>>
      decFormatted == decSign \o toString(decResult.whole) \o <<DEG, " ">>
                        \o toString(Abs(decResult.minutes)) \o <<APOS, " ">>
                        \o toFixed(Abs(decResult.seconds), 3) \o <<QUOT>>
  IN  raFormatted \o Comma \o decFormatted

OutputFormatOf(o) == IF "outputFormat" \in o.undef THEN "undefined" ELSE o.outputFormat

formatOutput(o, raResult, decResult) ==
  IF OutputFormatOf(o) = "aladin" THEN formatAladin(raResult, decResult)
  ELSE IF OutputFormatOf(o) = "decimal" THEN formatDecimal(o, raResult, decResult)
  ELSE IF OutputFormatOf(o) = "hms-dms" THEN formatHMSDMS(raResult, decResult)
  ELSE formatAladin(raResult, decResult)

isValidFormat(o, s) ==
  IF OutputFormatOf(o) = "aladin" THEN FullMatch(aladinFormat, s) ELSE FALSE

-----------------------------------------------------------------------------
(* classification *)

dangerousPatterns == <<
  Cat(<<Ch("<"), Star(NotCls({">"})), Ch(">")>>),
  LitI("javascript:"),
  Cat(<<LitI("on"), Plus(Cls(WordChar)), Star(S_), Ch("=")>>),
  Cls(Control) >>

\* containsMaliciousContent without the event-handler pattern
containsMaliciousContent_NoHandlers(s) ==
  \E k \in {1, 2, 4} : Test(dangerousPatterns[k], s)

containsMaliciousContent(s) ==
  \E k \in 1..Len(dangerousPatterns) : Test(dangerousPatterns[k], s)

coordinateIndicators == <<
  Cat(<<Plus(D), Cls({"h", "H", ":"}), Star(S_), Plus(D)>>),
  Cat(<<Plus(D), Cls({"d", "D", DEG}), Star(S_), Plus(D)>>),
  Cat(<<Cls({"+", "-"}), Star(S_), Plus(D)>>),
  Cat(<<Plus(D), Cls({"m", "M", APOS, PRIME}), Star(S_), Plus(D)>>),
  Cat(<<Plus(D), Cls({"s", "S", QUOT, DPRIME})>>),
  Cat(<<Plus(D), Ch("."), Plus(D), Star(Dot), Ch(","), Star(Dot), Plus(D), Ch("."), Plus(D)>>),
  Alt(<<LitI("RA"), LitI("DEC"), LitI("DECL")>>) >>

MatchesCatalog(s) ==
  \E k \in 1..Len(catalogPatterns) : FullMatch(catalogPatterns[k], toUpperCase(s))

MatchesIndicator(s) ==
  \E k \in 1..Len(coordinateIndicators) : Test(coordinateIndicators[k], s)

\* looksLikeCoordinates without the catalog patterns
looksLikeCoordinates_NoCatalog(s) ==
  IF s = <<>> THEN FALSE ELSE MatchesIndicator(s)

looksLikeCoordinates(s) ==
  IF s = <<>> THEN FALSE
  ELSE IF MatchesCatalog(s) THEN FALSE
  ELSE MatchesIndicator(s)

-----------------------------------------------------------------------------
(* parsing a pair *)

CoordinatesMetadata(o, raResult, decResult) ==
  [inputFormat |-> "coordinates", outputFormat |-> OutputFormatOf(o),
   ra |-> raResult, dec |-> decResult]

\* parseCombinedCoordinates reporting the DEC error before the RA error
parseCombinedCoordinates_DecFirst(o, raPart, decPart) ==
  LET raResult  == parseRA(raPart)
      decResult == parseDEC(decPart)
      raError   == validateRA(raResult.decimal)
      decError  == validateDEC(decResult.decimal)
  IN  IF ~raResult.isValid \/ ~decResult.isValid
      THEN LET e == IF ~decResult.error.null THEN decResult.error ELSE raResult.error
           IN  createResult(FALSE, <<>>,
                 Error("Invalid coordinates: " \o e.prefix, e.arg, e.num, e.suffix), NoMetadata)
      ELSE IF ValidateRangesOn(o) /\ (~raError.null \/ ~decError.null)
      THEN createResult(FALSE, <<>>, IF ~decError.null THEN decError ELSE raError, NoMetadata)
      ELSE createResult(TRUE, formatOutput(o, raResult, decResult), NullError,
                        CoordinatesMetadata(o, raResult, decResult))

parseCombinedCoordinates(o, raPart, decPart) ==
  LET raResult  == parseRA(raPart)
      decResult == parseDEC(decPart)
      raError   == validateRA(raResult.decimal)
      decError  == validateDEC(decResult.decimal)
  IN  IF ~raResult.isValid \/ ~decResult.isValid
      THEN LET e == IF ~raResult.error.null THEN raResult.error ELSE decResult.error
           IN  createResult(FALSE, <<>>,
                 Error("Invalid coordinates: " \o e.prefix, e.arg, e.num, e.suffix), NoMetadata)
      ELSE IF ValidateRangesOn(o) /\ (~raError.null \/ ~decError.null)
      THEN createResult(FALSE, <<>>, IF ~raError.null THEN raError ELSE decError, NoMetadata)
      ELSE createResult(TRUE, formatOutput(o, raResult, decResult), NullError,
                        CoordinatesMetadata(o, raResult, decResult))

NumberToken == Cat(<<Sign, Plus(D), Opt(Cat(<<Ch("."), Plus(D)>>))>>)

\* parseSpaceSeparatedCoordinates asking for a seventh number
parseSpaceSeparatedCoordinates_SevenNeeded(o, s) ==
  LET numMatches == MatchAll(NumberToken, s, 1)
  IN  IF Len(numMatches) < 7
      THEN createResult(FALSE, <<>>, Error("Insufficient coordinate components", <<>>, 0, ""),
                        NoMetadata)
      ELSE LET raH        == parseFloat(numMatches[1])
               raM        == parseFloat(numMatches[2])
               raS        == parseFloat(numMatches[3])
               decD       == parseFloat(numMatches[4])
               decM       == parseFloat(numMatches[5])
               decS       == parseFloat(numMatches[6])
               raDecimal_  == hmsToDecimal(raH, raM, raS)
               decDecimal_ == dmsToDecimal(decD, decM, decS)
               raError    == validateRA(raDecimal_)
               decError   == validateDEC(decDecimal_)
               keys       == {"decimal", "whole", "minutes", "seconds"}
               raResult   == [NoAxis EXCEPT !.keys = keys, !.decimal = raDecimal_,
                                !.whole = raH, !.minutes = raM, !.seconds = raS]
               decResult  == [NoAxis EXCEPT !.keys = keys, !.decimal = decDecimal_,
                                !.whole = decD, !.minutes = decM, !.seconds = decS]
           IN  IF ValidateRangesOn(o) /\ (~raError.null \/ ~decError.null)
               THEN createResult(FALSE, <<>>, IF ~raError.null THEN raError ELSE decError,
                                 NoMetadata)
               ELSE createResult(TRUE, formatOutput(o, raResult, decResult), NullError,
                                 CoordinatesMetadata(o, raResult, decResult))

parseSpaceSeparatedCoordinates(o, s) ==
  LET numMatches == MatchAll(NumberToken, s, 1)
  IN  IF Len(numMatches) < 6
      THEN createResult(FALSE, <<>>, Error("Insufficient coordinate components", <<>>, 0, ""),
                        NoMetadata)
      ELSE LET raH        == parseFloat(numMatches[1])
               raM        == parseFloat(numMatches[2])
               raS        == parseFloat(numMatches[3])
               decD       == parseFloat(numMatches[4])
               decM       == parseFloat(numMatches[5])
               decS       == parseFloat(numMatches[6])
               raDecimal_  == hmsToDecimal(raH, raM, raS)
               decDecimal_ == dmsToDecimal(decD, decM, decS)
               raError    == validateRA(raDecimal_)
               decError   == validateDEC(decDecimal_)
               keys       == {"decimal", "whole", "minutes", "seconds"}
               raResult   == [NoAxis EXCEPT !.keys = keys, !.decimal = raDecimal_,
                                !.whole = raH, !.minutes = raM, !.seconds = raS]
               decResult  == [NoAxis EXCEPT !.keys = keys, !.decimal = decDecimal_,
                                !.whole = decD, !.minutes = decM, !.seconds = decS]
           IN  IF ValidateRangesOn(o) /\ (~raError.null \/ ~decError.null)
               THEN createResult(FALSE, <<>>, IF ~raError.null THEN raError ELSE decError,
                                 NoMetadata)
               ELSE createResult(TRUE, formatOutput(o, raResult, decResult), NullError,
                                 CoordinatesMetadata(o, raResult, decResult))

-----------------------------------------------------------------------------
(* sanitizeCoordinates *)

\* an argument of sanitizeCoordinates: a string (its characters), or a value
\* of another type (falsy tells whether !input holds for it)
StringInput(chars) == [chars |-> chars, type |-> "string", falsy |-> chars = <<>>]
OtherInput(type, falsy) == [chars |-> <<>>, type |-> type, falsy |-> falsy]

PassThrough(s) ==
  createResult(TRUE, s, NullError, [NoMetadata EXCEPT !.inputFormat = "object-name",
                                                      !.outputFormat = "passthrough"])

\* the guard without the !input test
InputGuard_TypeOnly(in) == in.type # "string"

\* !input || typeof input !== 'string'
InputGuard(in) == in.falsy \/ in.type # "string"

sanitizeCoordinates(o, in) ==
  IF InputGuard(in)
  THEN createResult(FALSE, <<>>, Error("Input must be a non-empty string", <<>>, 0, ""),
                    NoMetadata)
  ELSE LET clean == cleanInput(in.chars)
           combinedMatch == Match(combinedPattern, <<TRUE, FALSE, FALSE>>, clean)
           spaceMatch == parseSpaceSeparatedCoordinates(o, clean)
       IN  IF containsMaliciousContent(clean)
           THEN createResult(FALSE, <<>>,
                  Error("Input contains potentially malicious content", <<>>, 0, ""), NoMetadata)
           ELSE IF isValidFormat(o, clean)
           THEN createResult(TRUE, clean, NullError,
                  [NoMetadata EXCEPT !.inputFormat = "already-valid",
                                     !.outputFormat = OutputFormatOf(o)])
           ELSE IF ~looksLikeCoordinates(clean) THEN PassThrough(clean)
           ELSE IF combinedMatch # <<>>
           THEN parseCombinedCoordinates(o, trim(Group(clean, combinedMatch, 1)),
                                            trim(Group(clean, combinedMatch, 3)))
           ELSE IF spaceMatch.isValid THEN spaceMatch
           ELSE PassThrough(clean)


-----------------------------------------------------------------------------
(* The state of the regular expressions kept in this.patterns and          *)
(* this.catalogPatterns.  A pattern is executed by test (aladinFormat, the *)
(* catalog patterns) or by String.prototype.match (the others).  Matching  *)
(* starts at lastIndex only for a global or sticky pattern; none of the    *)
(* kept patterns is, which is why sanitizeCoordinates above matches from   *)
(* the start of the text.                                                  *)

patternFlags ==
  [raHMS |-> {"i"}, raHMSCompact |-> {}, raDecimal |-> {},
   decDMS |-> {"i"}, decDMSCompact |-> {}, decDecimal |-> {},
   combinedPattern |-> {}, aladinFormat |-> {}]

\* the catalog patterns made global
catalogFlags_Global == [k \in 1..Len(catalogPatterns) |-> {"g", "i"}]

catalogFlags == [k \in 1..Len(catalogPatterns) |-> {"i"}]

\* lastIndex after construction
FreshLastIndex ==
  [patterns |-> [raHMS |-> 0, raHMSCompact |-> 0, raDecimal |-> 0, decDMS |-> 0,
                 decDMSCompact |-> 0, decDecimal |-> 0, combinedPattern |-> 0,
                 aladinFormat |-> 0],
   catalogPatterns |-> [k \in 1..Len(catalogPatterns) |-> 0]]

NotExecuted == 0 - 1

\* lastIndex of a pattern with these flags after it was executed by method
\* and matched up to e (0: no match); li if it was not executed
lastIndexAfter(method, flags, li, e) ==
  IF e = NotExecuted THEN li
  ELSE IF method = "match" /\ "g" \in flags THEN 0
  ELSE IF "g" \in flags \/ "y" \in flags THEN e
  ELSE li

\* where the execution of an anchored pattern on s ends
EndOn(re, s) == IF FullMatch(re, s) THEN Len(s) ELSE 0

\* where the executions of three patterns tried in order on part end, the
\* next one being tried when the one before does not match
TriedInOrder(cond, first, second, third, part) ==
  LET e1 == IF cond THEN EndOn(Cat(first), part) ELSE NotExecuted
      e2 == IF cond /\ e1 = 0 THEN EndOn(Cat(second), part) ELSE NotExecuted
      e3 == IF cond /\ e1 = 0 /\ e2 = 0 THEN EndOn(Cat(third), part) ELSE NotExecuted
  IN  <<e1, e2, e3>>

\* the executions of a call that got as far as classify and parse say, by
\* pattern: where the last one ends, NotExecuted if there was none
EndsOf(aladin, classify, parse, clean, upper, combined, ra, dec) ==
  [patterns |->
     [aladinFormat |-> aladin,
      combinedPattern |-> IF ~parse THEN NotExecuted
                          ELSE IF combined # <<>> THEN Len(clean) ELSE 0,
      raHMS |-> ra[1], raHMSCompact |-> ra[2], raDecimal |-> ra[3],
      decDMS |-> dec[1], decDMSCompact |-> dec[2], decDecimal |-> dec[3]],
   catalogPatterns |->
     [k \in 1..Len(catalogPatterns) |->
        IF classify /\ \A j \in 1..(k - 1) : ~FullMatch(catalogPatterns[j], upper)
        THEN EndOn(catalogPatterns[k], upper) ELSE NotExecuted]]

EndsParsed(aladin, classify, parse, clean, combined) ==
  EndsOf(aladin, classify, parse, clean, toUpperCase(clean), combined,
         TriedInOrder(parse /\ combined # <<>>, raHMS, raHMSCompact, raDecimal,
                      trim(Group(clean, combined, 1))),
         TriedInOrder(parse /\ combined # <<>>, decDMS, decDMSCompact, decDecimal,
                      trim(Group(clean, combined, 3))))

EndsClassified(o, reached, aladin, clean) ==
  EndsParsed(IF reached /\ OutputFormatOf(o) = "aladin" THEN aladin ELSE NotExecuted,
             reached /\ clean # <<>> /\ ~(OutputFormatOf(o) = "aladin" /\ aladin > 0),
             /\ reached /\ clean # <<>> /\ ~(OutputFormatOf(o) = "aladin" /\ aladin > 0)
             /\ looksLikeCoordinates(clean),
             clean, Match(combinedPattern, <<TRUE, FALSE, FALSE>>, clean))

EndsReached(o, guard, clean) ==
  EndsClassified(o, ~guard /\ ~containsMaliciousContent(clean), EndOn(aladinFormat, clean),
                 clean)

\* for every kept pattern, where its last execution in the call
\* sanitizeCoordinates(in) ends, NotExecuted if the call does not reach it
ExecEnds(o, in) == EndsReached(o, InputGuard(in), cleanInput(in.chars))

\* lastIndex of the kept patterns after a call whose executions end at ends
Executed(li, ends) ==
  LET P(n, method) == lastIndexAfter(method, patternFlags[n], li.patterns[n], ends.patterns[n])
  IN  [patterns |->
         [raHMS |-> P("raHMS", "match"), raHMSCompact |-> P("raHMSCompact", "match"),
          raDecimal |-> P("raDecimal", "match"), decDMS |-> P("decDMS", "match"),
          decDMSCompact |-> P("decDMSCompact", "match"),
          decDecimal |-> P("decDecimal", "match"),
          combinedPattern |-> P("combinedPattern", "match"),
          aladinFormat |-> P("aladinFormat", "test")],
       catalogPatterns |->
         [k \in 1..Len(catalogPatterns) |->
            lastIndexAfter("test", catalogFlags[k], li.catalogPatterns[k],
                           ends.catalogPatterns[k])]]

\* lastIndex of the kept patterns after the call sanitizeCoordinates(in):
\* executing a pattern that is neither global nor sticky leaves it alone
AfterCall(li, o, in) ==
  IF /\ \A n \in DOMAIN patternFlags : patternFlags[n] \cap {"g", "y"} = {}
     /\ \A k \in DOMAIN catalogFlags : catalogFlags[k] \cap {"g", "y"} = {}
  THEN li
  ELSE Executed(li, ExecEnds(o, in))

-----------------------------------------------------------------------------
(* The callers: the configurations and the inputs the model is run on.     *)
(* Every input carries src, a description of how it was written: for a     *)
(* coordinate text the notation of each axis and the value a reader of     *)
(* the text means by it (in units), independent of any parsing.            *)

MaxPad   == 2
MaxBlank == 3

GivenOptions ==
  {[NoGiven EXCEPT !.keys = {"outputFormat"}, !.outputFormat = f] :
      f \in {"aladin", "decimal", "hms-dms"}}
  \cup {[NoGiven EXCEPT !.keys = {"outputFormat", "validateRanges"}, !.outputFormat = f,
                        !.validateRanges = FALSE] : f \in {"aladin", "decimal", "hms-dms"}}
  \cup {NoGiven,
        [NoGiven EXCEPT !.keys = {"outputFormat", "precision"}, !.outputFormat = "decimal",
                        !.precision = 2]}
  \cup {[NoGiven EXCEPT !.keys = {"outputFormat", "precision"}, !.outputFormat = "decimal",
                        !.precision = p] : p \in {0, 101}}
  \cup {[NoGiven EXCEPT !.keys = {"outputFormat", "precision", "validateRanges"},
                        !.outputFormat = "decimal", !.precision = 101,
                        !.validateRanges = FALSE]}
  \cup {[NoGiven EXCEPT !.keys = {"validateRanges"}, !.undef = {"validateRanges"}],
        [NoGiven EXCEPT !.keys = {"outputFormat", "precision"}, !.outputFormat = "decimal",
                        !.undef = {"precision"}]}

\* a sexagesimal RA as typed: the three fields, and their values (hours,
\* minutes, hundredths of a second)
RaFields == {
  <<"00", "00", "00", 0, 0, 0>>,
  <<"0", "00", "00", 0, 0, 0>>,
  <<"12", "00", "00", 12, 0, 0>>,
  <<"12", "34", "56.78", 12, 34, 5678>>,
  <<"16", "37", "13", 16, 37, 1300>>,
  <<"23", "59", "59", 23, 59, 5900>>,
  <<"24", "00", "00", 24, 0, 0>>,
  <<"25", "00", "00", 25, 0, 0>> }

\* a sexagesimal DEC as typed: the sign, the three fields, and their values
\* (degrees, minutes, hundredths of a second)
DecFields == {
  <<"+", "00", "00", "00", 0, 0, 0>>,
  <<"+", "12", "34", "56.78", 12, 34, 5678>>,
  <<"-", "12", "00", "00", 12, 0, 0>>,
  <<"+", "90", "00", "00", 90, 0, 0>>,
  <<"-", "90", "00", "00", 90, 0, 0>>,
  <<"+", "90", "00", "01", 90, 0, 100>>,
  <<"+", "95", "00", "00", 95, 0, 0>>,
  <<"-", "95", "00", "00", 95, 0, 0>>,
  <<"-", "00", "58", "20", 0, 58, 2000>>,
  <<"-", "0", "30", "00", 0, 30, 0>>,
  <<"-", "05", "23", "14", 5, 23, 1400>>,
  <<"", "45", "00", "00", 45, 0, 0>>,
  <<"", "12", "00", "00", 12, 0, 0>> }

\* a decimal as typed, and its value in thousandths
RaDecimals  == {<<"0", 0>>, <<"12", 12000>>, <<"12.5", 12500>>, <<"23.999", 23999>>,
                <<"24", 24000>>, <<"123.456", 123456>>}
DecDecimals == {<<"+0.5", 500>>, <<"-0.5", -500>>, <<"-12.345", -12345>>, <<"-45.75", -45750>>,
                <<"90", 90000>>, <<"+90.001", 90001>>, <<"-90.001", -90001>>, <<"12", 12000>>,
                <<"45.5", 45500>>, <<"+12", 12000>>}

Notations == {"symbolic", "colon", "space", "compact"}

NoSrc ==
  [family |-> "none", tag |-> "", raNote |-> "", decNote |-> "", ra |-> 0, dec |-> 0,
   raWhole |-> 0, decSign |-> "", decWhole |-> 0, tokens |-> 0, sep |-> "",
   raMinutes |-> 0, raSeconds |-> 0, decMinutes |-> 0, decSeconds |-> 0]

RaText(f, note) ==
  IF note = "symbolic" THEN Chars(f[1] \o "h " \o f[2] \o "m " \o f[3] \o "s")
  ELSE IF note = "colon" THEN Chars(f[1] \o ":" \o f[2] \o ":" \o f[3])
  ELSE IF note = "space" THEN Chars(f[1] \o " " \o f[2] \o " " \o f[3])
  ELSE Chars(f[1] \o f[2] \o f[3])

DecText(f, note) ==
  IF note = "symbolic"
    THEN Chars(f[1] \o f[2]) \o <<DEG>> \o Chars(" " \o f[3] \o "' " \o f[4] \o "\"")
  ELSE IF note = "colon" THEN Chars(f[1] \o f[2] \o ":" \o f[3] \o ":" \o f[4])
  ELSE IF note = "space" THEN Chars(f[1] \o f[2] \o " " \o f[3] \o " " \o f[4])
  ELSE Chars(f[1] \o f[2] \o f[3] \o f[4])

\* the value meant by three sexagesimal fields: whole + minutes/60 + seconds/3600
SexaValue(whole, minutes, hundredths) ==
  whole * Unit + minutes * (Unit \div 60) + hundredths * (Unit \div 360000)

RaParts ==
  {[text |-> RaText(f, n), note |-> n, whole |-> f[4],
    value |-> SexaValue(f[4], f[5], f[6])] : f \in RaFields, n \in Notations}
  \cup {[text |-> Chars(d[1]), note |-> "decimal", whole |-> d[2] \div 1000,
         value |-> d[2] * (Unit \div 1000)] : d \in RaDecimals}
  \cup {[text |-> Chars("-1h 00m 00s"), note |-> "negative", whole |-> -1, value |-> -Unit],
        [text |-> Chars("123h 00m 00s"), note |-> "wide", whole |-> 123,
         value |-> 123 * Unit]}

DecParts ==
  {[text |-> DecText(f, n), note |-> n, sign |-> f[1], whole |-> f[5],
    value |-> (IF f[1] = "-" THEN -1 ELSE 1) * SexaValue(f[5], f[6], f[7])] :
      f \in DecFields, n \in Notations}
  \cup {[text |-> Chars(d[1]), note |-> "decimal", sign |-> SubSeq(d[1], 1, 1),
         whole |-> Abs(d[2]) \div 1000, value |-> d[2] * (Unit \div 1000)] : d \in DecDecimals}
  \cup {[text |-> Chars("+12x 00 00"), note |-> "garbled", sign |-> "+", whole |-> 12,
         value |-> 12 * Unit]}

RaCore  == {r \in RaParts : r.text \in {Chars("12h 34m 56.78s"), Chars("16 37 13"),
                                        Chars("12.5"), Chars("25:00:00")}}
DecCore == {d \in DecParts : d.text \in {Chars("+12:34:56.78"), Chars("-00 58 20"),
                                         Chars("-0.5"), Chars("45 00 00")}}

\* axes written as formatAladin writes them
RaCanonical ==
  {[text |-> RaText(f, "space"), note |-> "space", whole |-> f[4],
    value |-> SexaValue(f[4], f[5], f[6])] :
      f \in {<<"12", "34", "56.780", 12, 34, 5678>>, <<"00", "00", "00.000", 0, 0, 0>>}}
DecCanonical ==
  {[text |-> DecText(f, "space"), note |-> "space", sign |-> f[1], whole |-> f[5],
    value |-> (IF f[1] = "-" THEN -1 ELSE 1) * SexaValue(f[5], f[6], f[7])] :
      f \in {<<"+", "12", "34", "56.780", 12, 34, 5678>>, <<"-", "45", "00", "00.000", 45, 0, 0>>}}

\* sexagesimal fields whose minutes or seconds are in 60..99: in range, and
\* (the last of each) out of range
RaLoose == {
  <<"12", "75", "80", 12, 75, 8000>>,
  <<"00", "99", "99", 0, 99, 9900>>,
  <<"23", "60", "00", 23, 60, 0>> }
DecLoose == {
  <<"+", "10", "70", "99", 10, 70, 9900>>,
  <<"-", "05", "60", "60", 5, 60, 6000>>,
  <<"-", "89", "99", "99", 89, 99, 9900>> }

Blanks(n) == [i \in 1..n |-> " "]

Pair(r, d, sep, before, after) ==
  [text |-> r.text \o Blanks(before) \o <<sep>> \o Blanks(after) \o d.text,
   src  |-> [NoSrc EXCEPT !.family = "pair", !.raNote = r.note, !.decNote = d.note,
               !.ra = r.value, !.raWhole = r.whole, !.dec = d.value, !.decSign = d.sign,
               !.decWhole = d.whole,
               !.sep = sep]]

\* an RA and a DEC with minutes or seconds in 60..99, in one notation
LoosePair(f, g, n) ==
  LET r == [text |-> RaText(f, n), note |-> n, whole |-> f[4],
            value |-> SexaValue(f[4], f[5], f[6])]
      d == [text |-> DecText(g, n), note |-> n, sign |-> g[1], whole |-> g[5],
            value |-> (IF g[1] = "-" THEN -1 ELSE 1) * SexaValue(g[5], g[6], g[7])]
      p == Pair(r, d, ",", 0, 1)
  IN  [text |-> p.text,
       src  |-> [p.src EXCEPT !.tag = "loose", !.raMinutes = f[5], !.raSeconds = f[6],
                              !.decMinutes = g[6], !.decSeconds = g[7]]]

PairInputs ==
  {LoosePair(f, g, n) : f \in RaLoose, g \in DecLoose, n \in Notations}
  \cup {Pair(r, d, ",", 0, 1) : r \in RaParts, d \in DecCore}
  \cup {Pair(r, d, ",", 0, 1) : r \in RaCore, d \in DecParts}
  \cup {Pair(r, d, ",", 0, 1) : r \in {x \in RaParts : x.note = "decimal"},
          d \in {x \in DecParts : x.note = "decimal"}}
  \cup {Pair(r, d, ",", 0, 1) : r \in RaCanonical, d \in DecCanonical}
  \cup {Pair(r, d, sep, b, a) : r \in {x \in RaCore : x.note = "symbolic"},
          d \in {x \in DecCore : x.note = "colon"},
          sep \in {",", ";", MIDDOT, BULLET}, b \in 0..MaxPad, a \in 0..MaxPad}
  \cup {Pair(r, d, ",", 0, 1) : r \in {x \in RaParts : x.note \in {"negative", "wide"}},
          d \in {x \in DecParts : x.note = "garbled"}}
  \cup {Pair(r, d, sep, 1, 1) : r \in RaCore,
          d \in DecCore \cup {x \in DecParts : x.text = Chars("45.5")},
          sep \in {";", MIDDOT, BULLET}}

\* six numbers and no separator: an RA and a DEC in the space notation
TokenInputs ==
  {[text |-> r.text \o <<" ">> \o d.text,
    src  |-> [NoSrc EXCEPT !.family = "tokens", !.raNote = "space", !.decNote = "space",
                !.ra = r.value, !.raWhole = r.whole, !.dec = d.value, !.decSign = d.sign,
               !.decWhole = d.whole,
                !.tokens = 6]] :
      r \in {x \in RaParts : x.note = "space"}, d \in {x \in DecParts : x.note = "space"}}
  \cup {[text |-> Chars(w[1]), src |-> [NoSrc EXCEPT !.family = "tokens", !.tag = w[2],
                                          !.tokens = w[3]]] :
      w \in {<<"12 34 56.7 -45 12", "short", 5>>,
             <<"12 34 56.7 -45 12 34.5 2000", "long", 7>>,
             <<"0 0 5000 +0 0 0", "wide", 6>>,
             <<"12 -30 00 +10 00 00", "negative", 6>>,
             <<"-1 00 00 +00 00 00", "negative", 6>>,
             <<"12.5 30 0 +10 0 0", "fraction", 6>>}}

\* names and other text
TextInputs ==
  {[text |-> Chars(w[1]), src |-> [NoSrc EXCEPT !.family = "text", !.tag = w[2]]] :
      w \in {<<"M31", "catalog">>, <<"m 42", "catalog">>, <<"NGC 1234", "catalog">>,
             <<"IC 1396", "catalog">>, <<"UGC12158", "catalog">>, <<"PGC 2557", "catalog">>,
             <<"HIP 11767", "catalog">>, <<"HD 209458", "catalog">>, <<"SAO 308", "catalog">>,
             <<"Sh2-155", "catalog">>, <<"Barnard 33", "catalog">>, <<"PK 123+45", "catalog">>,
             <<"PK 1+2+3+4+5+6", "catalog">>, <<"LBN 1022", "catalog">>,
             <<"ALPHA CENTAURI", "catalog">>, <<"51 Eri", "catalog">>, <<"R And", "catalog">>,
             <<"12 DEC", "catalog">>, <<"  M31  ", "catalog">>,
             <<"Polaris", "plain">>, <<"Andromeda Galaxy", "catalog">>,
             <<"Barnard's  Star", "plain">>, <<"Omega  Cen  A", "plain">>,
             <<"Polaris;B", "plain">>, <<"Hydra, north", "plain">>,
             <<"Vega", "plain">>, <<"12h 34m 56s", "lone">>, <<"+41", "lone">>,
             <<"<script>alert(1)</script>", "malicious">>, <<"<b>Vega</b>", "malicious">>,
             <<"javascript:alert(1)", "malicious">>, <<"onclick=x", "malicious">>,
             <<"JavaScript :alert(1)", "malicious">>, <<"ONLOAD = 1", "malicious">>,
             <<"M31 <b>", "malicious">>, <<"NGC 1234 onerror=1", "malicious">>,
             <<"12h 34m 56s, +12:34:56 <i>x</i>", "malicious">>,
             <<"12 34 56.78, +12 34 56.78 onload=1", "malicious">>,
             <<"12 34 56 +12 34 56 javascript:", "malicious">>}}
  \cup {[text |-> Chars(w), src |-> [NoSrc EXCEPT !.family = "text", !.tag = "split"]] :
          w \in {"12h 34m 56s, +12:34:56, extra", "12h 34m 56s; +12:34:56; 2000",
                 ", 12h 34m 56s, +12:34:56", "12h  34m  56x , +12:34:56",
                 "+12:34:56,", "12h 34m 56s,, +12:34:56"}}
  \cup {[text |-> Chars("12h 34m 56s, +12") \o <<DEG>> \o Chars(" 00x"),
         src |-> [NoSrc EXCEPT !.family = "text", !.tag = "split"]]}
  \cup {[text |-> Chars("Vega") \o <<c>> \o Chars("B"),
         src |-> [NoSrc EXCEPT !.family = "text", !.tag = "glyph"]] :
      c \in {DEG, ENDASH, BULLET, PRIME, NUL, DEL, TAB, LF}}
  \cup {[text |-> Chars("12h 34m 56s,") \o <<c>> \o Chars("+12:34:56"),
         src |-> [NoSrc EXCEPT !.family = "text", !.tag = "glyph"]] : c \in {TAB, NUL}}
  \cup {[text |-> Blanks(n), src |-> [NoSrc EXCEPT !.family = "text", !.tag = "blank"]] :
      n \in 0..MaxBlank}
  \cup {[text |-> <<TAB, " ", NBSP>>, src |-> [NoSrc EXCEPT !.family = "text", !.tag = "blank"]]}

\* arguments that are not strings: null, undefined, 0, 123, NaN, false, true, {}
\* the arguments of createPreset: the four presets and a name that is none
NoPreset   == ""
PresetArgs == {"aladin", "decimal", "loose", "strict", "custom"}

OtherInputs ==
  {OtherInput("null", TRUE), OtherInput("undefined", TRUE), OtherInput("number", TRUE),
   OtherInput("number", FALSE), OtherInput("boolean", TRUE), OtherInput("boolean", FALSE),
   OtherInput("object", FALSE)}

-----------------------------------------------------------------------------
(* The state machine: an instance is constructed, then sanitizeCoordinates *)
(* is called on it any number of times.                                    *)

NoInput  == OtherInput("none", TRUE)
NoResult == createResult(FALSE, <<>>, NullError, NoMetadata)

Init ==
  /\ preset \in {NoPreset} \cup PresetArgs
  /\ constructedWith \in (IF preset = NoPreset THEN GivenOptions ELSE {PresetGiven(preset)})
  /\ options = (IF preset = NoPreset THEN Construct(constructedWith) ELSE createPreset(preset))
  /\ lastIndex = FreshLastIndex
  /\ used = FALSE
  /\ pc = "idle"
  /\ input = NoInput
  /\ src = NoSrc
  /\ result = NoResult

\* what a call that throws leaves: the error, and no result
Raised == [NoResult EXCEPT !.coordinates = RangeError]

\* what the caller gets of a call that evaluates to r: r, or the error when
\* the RangeError of toFixed has left the call
Outcome(r) == IF r.coordinates = RangeError THEN Raised ELSE r

\* a caller calls sanitizeCoordinates(in)
Pass(in, s) ==
  /\ pc = "idle"
  /\ pc' = "called"
  /\ input' = in
  /\ src' = s
  /\ UNCHANGED <<options, lastIndex, constructedWith, preset, used, result>>

CallWithPair   == \E p \in PairInputs : Pass(StringInput(p.text), p.src)
CallWithTokens == \E p \in TokenInputs : Pass(StringInput(p.text), p.src)
CallWithText   == \E p \in TextInputs : Pass(StringInput(p.text), p.src)
CallWithOther  == \E in \in OtherInputs : Pass(in, [NoSrc EXCEPT !.family = "other"])

\* the body of sanitizeCoordinates runs: it returns a result, or the
\* RangeError of toFixed leaves it and there is no result
Sanitize ==
  /\ pc = "called"
  /\ result' = Outcome(sanitizeCoordinates(options, input))
  /\ pc' = IF result' = Raised THEN "thrown" ELSE "returned"
  /\ lastIndex' = AfterCall(lastIndex, options, input)
  /\ UNCHANGED <<options, constructedWith, preset, used, input, src>>

\* the caller takes the result or catches the error; the instance is ready
\* for the next call
Return ==
  /\ pc \in {"returned", "thrown"}
  /\ pc' = "idle"
  /\ input' = NoInput
  /\ src' = NoSrc
  /\ result' = NoResult
  /\ used' = TRUE
  /\ UNCHANGED <<options, lastIndex, constructedWith, preset>>

Next == CallWithPair \/ CallWithTokens \/ CallWithText \/ CallWithOther \/ Sanitize \/ Return

Spec == Init /\ [][Next]_vars


-----------------------------------------------------------------------------
(* Properties *)

Returned == pc = "returned"
IsString == input.type = "string"
Clean    == cleanInput(input.chars)

\* the two parts sanitizeCoordinates hands to parseCombinedCoordinates
RaPartOf(s)  == trim(Group(s, Match(combinedPattern, <<TRUE, FALSE, FALSE>>, s), 1))
DecPartOf(s) == trim(Group(s, Match(combinedPattern, <<TRUE, FALSE, FALSE>>, s), 3))
BothParse ==
  /\ Match(combinedPattern, <<TRUE, FALSE, FALSE>>, Clean) # <<>>
  /\ parseRA(RaPartOf(Clean)).isValid
  /\ parseDEC(DecPartOf(Clean)).isValid

\* the ranges, on the values the text means
OutRA  == src.ra < 0 \/ src.ra >= 24 * Unit
OutDEC == src.dec < -90 * Unit \/ src.dec > 90 * Unit
RangeErrorReported ==
  IF OutRA THEN result.error.prefix = "RA out of range: " /\ result.error.num = src.ra
  ELSE result.error.prefix = "DEC out of range: " /\ result.error.num = src.dec

IsCoordinates == result.isValid /\ result.metadata.inputFormat = "coordinates"
IsObjectName  == result.isValid /\ result.metadata.inputFormat = "object-name"

\* the DEC portion of "RA, DEC"
DecPortion(s) ==
  LET c == SetMin({i \in 1..Len(s) : s[i] = ","}) IN SubSeq(s, c + 2, Len(s))

C2_Claim ==
  (Returned /\ src.family = "tokens" /\ src.tokens = 6 /\ src.tag = ""
     /\ ValidateRangesOn(options) /\ (OutRA \/ OutDEC))
    => ~result.isValid /\ RangeErrorReported

\* C3: a DEC written with a leading '-', a zero degree field and non-zero
\* minutes or seconds is parsed to a negative decimal and rendered "-00".
C3_Claim ==
  (Returned /\ src.family = "pair" /\ BothParse /\ ~OutRA
     /\ src.decSign = "-" /\ src.decWhole = 0 /\ src.dec < 0
     /\ src.decNote \in {"space", "symbolic", "colon"})
    => /\ IsCoordinates
       /\ result.metadata.dec.decimal < 0
       /\ OutputFormatOf(options) = "aladin"
            => SubSeq(DecPortion(result.coordinates), 1, 3) = <<"-", "0", "0">>

\* C4: a result with isValid = false has coordinates "" and an error that
\* is neither null nor empty, whatever the argument and the configuration.
C4_InvalidResult ==
  (Returned /\ ~result.isValid)
    => /\ result.coordinates = <<>>
       /\ ~result.error.null
       /\ Len(result.error.prefix) > 0

C4_Witness ==
  /\ Returned /\ ~result.isValid /\ src.family = "pair" /\ ~ValidateRangesOn(options)
  /\ result.coordinates = <<>>
  /\ result.error.prefix = "Invalid coordinates: Invalid DEC format: "

\* C5: in a valid coordinates result in the aladin or hms-dms format the DEC
\* portion begins with '+' when dec.decimal >= 0 and with '-' when it is < 0.
C5_Claim ==
  (Returned /\ IsCoordinates /\ OutputFormatOf(options) \in {"aladin", "hms-dms"})
    => Head(DecPortion(result.coordinates))
         = (IF result.metadata.dec.decimal >= 0 THEN "+" ELSE "-")

\* C6: with validateRanges on and the aladin format, every coordinates
\* result has the shape "HH MM SS.sss, +-DD MM SS.sss".
AladinShape ==
  Cat(<<Rep(D, 2, 2), Ch(" "), Rep(D, 2, 2), Ch(" "), Rep(D, 2, 2), Ch("."), Rep(D, 3, 3),
        Ch(","), Ch(" "), Cls({"+", "-"}), Rep(D, 2, 2), Ch(" "), Rep(D, 2, 2), Ch(" "),
        Rep(D, 2, 2), Ch("."), Rep(D, 3, 3)>>)
C6_Claim ==
  (Returned /\ IsCoordinates /\ ValidateRangesOn(options) /\ OutputFormatOf(options) = "aladin")
    => FullMatch(AladinShape, result.coordinates)

\* C7: an input that matches no catalog pattern and no coordinate indicator
\* is returned as an object name, as typed but for the outer whitespace.
C7_Claim ==
  (Returned /\ IsString /\ ~input.falsy /\ ~MatchesCatalog(Clean) /\ ~MatchesIndicator(Clean))
    => IsObjectName /\ result.coordinates = trim(input.chars)

\* C8: an input whose normalized, upper-cased form matches a catalog pattern
\* is a valid object name passed through, whatever indicator it contains.
C8_CatalogWins ==
  (Returned /\ IsString /\ (src.tag = "catalog" \/ MatchesCatalog(Clean)))
    => IsObjectName /\ result.metadata.outputFormat = "passthrough"

C8_Witness ==
  /\ Returned /\ IsString /\ src.tag = "catalog" /\ MatchesCatalog(Clean)
  /\ MatchesIndicator(Clean) /\ Len(MatchAll(NumberToken, Clean, 1)) >= 6
  /\ IsObjectName /\ result.coordinates = Clean

\* C9: null, undefined, the empty string and any value that is not a string
\* give isValid = false with an error containing "non-empty string".
C9_NonString ==
  (Returned /\ (~IsString \/ input.chars = <<>>))
    => /\ ~result.isValid
       /\ ~result.error.null
       /\ Test(Lit("non-empty string"), Chars(result.error.prefix))

C9_Witness ==
  /\ Returned /\ input.type = "null" /\ ~result.isValid
  /\ result.error.prefix = "Input must be a non-empty string"

\* C10: a string made only of whitespace gives isValid = false.
C10_Claim ==
  (Returned /\ IsString /\ input.chars # <<>> /\ \A i \in 1..Len(input.chars) : input.chars[i] \in WS)
    => ~result.isValid

\* the error of the security check
MaliciousError ==
  /\ ~result.isValid
  /\ ~result.error.null
  /\ Test(Lit("malicious"), Chars(result.error.prefix))

\* C11: a string whose normalized form contains a markup tag, "javascript:"
\* (in any case) or an "on<word>=" token is rejected with an error
\* containing "malicious", whatever else it contains: it is never returned
\* as already-valid, object-name or coordinates.
C11_Denylist ==
  (Returned /\ IsString /\ ~input.falsy
     /\ \E k \in 1..3 : Test(dangerousPatterns[k], Clean))
    => /\ MaliciousError
       /\ result.coordinates = <<>>
       /\ result.metadata.inputFormat \notin {"already-valid", "object-name", "coordinates"}

C11_Witness ==
  /\ Returned /\ src.tag = "malicious"
  /\ Test(dangerousPatterns[3], Clean) /\ ~Test(dangerousPatterns[1], Clean)
  /\ looksLikeCoordinates(Clean)
  /\ Match(combinedPattern, <<TRUE, FALSE, FALSE>>, Clean) # <<>>
  /\ MaliciousError

\* C12: a string containing a C0 control character (tab and line feed
\* included) or DEL is rejected with the malicious-content error.
C12_Claim ==
  (Returned /\ IsString /\ \E i \in 1..Len(input.chars) : input.chars[i] \in Control)
    => MaliciousError

\* C13: with the default configuration a comma-separated decimal pair whose
\* first number is a right ascension in degrees, in [24, 360), is accepted
\* and converted; "123.456, -12.345" gives "08 13 49.440, -12 20 42.000".
C13_Claim ==
  (Returned /\ options = Defaults /\ src.family = "pair"
     /\ src.raNote = "decimal" /\ src.decNote = "decimal"
     /\ src.ra >= 24 * Unit /\ src.ra < 360 * Unit /\ ~OutDEC)
    => /\ result.isValid
       /\ input.chars = Chars("123.456, -12.345")
            => result.coordinates = Chars("08 13 49.440, -12 20 42.000")

\* C14: with the aladin format, a string already of the form
\* "HH MM SS.sss, +-DD MM SS.sss" is returned unchanged, valid, with
\* inputFormat "already-valid".
C14_Claim ==
  (Returned /\ IsString /\ OutputFormatOf(options) = "aladin"
     /\ FullMatch(AladinShape, input.chars))
    => /\ result.isValid
       /\ result.coordinates = input.chars
       /\ result.metadata.inputFormat = "already-valid"

\* the call is over: it has returned or thrown
Done   == pc \in {"returned", "thrown"}
Thrown == pc = "thrown"

\* validateRanges was configured false
RangesOff == "validateRanges" \notin options.undef /\ options.validateRanges = FALSE

\* a pair whose parts parse, or six numbers
ParsablePair ==
  \/ src.family = "pair" /\ BothParse
  \/ src.family = "tokens" /\ src.tokens = 6 /\ src.tag = ""

\* the digits a text begins with
RECURSIVE LeadingDigits(_)
LeadingDigits(s) ==
  IF s # <<>> /\ Head(s) \in Digit THEN <<Head(s)>> \o LeadingDigits(Tail(s)) ELSE <<>>

\* the out-of-range axis keeps its value: in metadata, and in the leading
\* field of its portion of a sexagesimal output
RenderedUnchanged ==
  /\ OutRA => /\ result.metadata.ra.decimal = src.ra
              /\ OutputFormatOf(options) \in {"aladin", "hms-dms"}
                   => NatOf(LeadingDigits(result.coordinates)) = src.raWhole
  /\ OutDEC => /\ result.metadata.dec.decimal = src.dec
               /\ OutputFormatOf(options) \in {"aladin", "hms-dms"}
                    => /\ Head(DecPortion(result.coordinates)) = (IF src.dec < 0 THEN "-" ELSE "+")
                       /\ NatOf(LeadingDigits(Tail(DecPortion(result.coordinates))))
                            = src.decWhole

NegativeHour ==
  /\ IsString /\ src.family \in {"pair", "tokens"}
  /\ input.chars # <<>> /\ Head(input.chars) = "-"

\* C16: a coordinate text whose RA hour component is negative, separated or
\* as six tokens, is rejected with isValid = false and a non-empty error
\* and is never parsed into a negative hour, under every validateRanges.
C16_Claim ==
  (Done /\ NegativeHour)
    => /\ ~Thrown
       /\ ~result.isValid
       /\ ~result.error.null /\ Len(result.error.prefix) > 0
       /\ result.metadata.ra.whole >= 0

\* C17: the effective configuration is the defaults overridden only by the
\* options supplied with a defined value: an option passed as undefined
\* keeps its default, so {validateRanges: undefined} still validates ranges.
C17_Claim ==
  /\ \A g \in GivenOptions :
       options = Construct(g)
         => \A k \in OptionKeys :
              /\ k \notin options.undef
              /\ options[k] = (IF k \in g.keys \ g.undef THEN g[k] ELSE Defaults[k])
  /\ (Returned /\ options.undef # {} /\ src.family = "pair" /\ BothParse
        /\ looksLikeCoordinates(Clean) /\ (OutRA \/ OutDEC))
       => ~result.isValid

\* a number with exactly p fraction digits, and no point when p = 0
FixedShape(p) ==
  IF p = 0 THEN Cat(<<Opt(Ch("-")), Plus(D)>>)
  ELSE Cat(<<Opt(Ch("-")), Plus(D), Ch("."), Rep(D, p, p)>>)

\* C18: with the decimal format and a non-negative integer precision, the
\* coordinates of every valid coordinates result are "<RA>, <DEC>", both
\* numbers with exactly precision digits after the point.
C18_Precision ==
  (Returned /\ IsCoordinates /\ OutputFormatOf(options) = "decimal"
     /\ "precision" \notin options.undef /\ options.precision >= 0)
    => FullMatch(Cat(<<FixedShape(options.precision), Ch(","), Ch(" "),
                       FixedShape(options.precision)>>), result.coordinates)

C18_Witness ==
  /\ Returned /\ IsCoordinates /\ OutputFormatOf(options) = "decimal"
  /\ options.precision = 2 /\ src.family = "pair"
  /\ src.ra = 12 * Unit + 34 * (Unit \div 60) + 5678 /\ src.dec = -Unit \div 2
  /\ result.coordinates = Chars("12.58, -0.50")

\* C19: a non-empty string with no digit and no denylisted content is
\* returned valid as an object name, also when it contains a comma, a
\* semicolon or the letters "ra" or "dec".
C19_Claim ==
  (Done /\ IsString /\ ~input.falsy
     /\ \A i \in 1..Len(input.chars) : input.chars[i] \notin Digit \cup Control
     /\ ~containsMaliciousContent(Clean))
    => ~Thrown /\ IsObjectName

Separators == {",", ";", MIDDOT, BULLET}

\* the text with its first separator, and the whitespace around it, written
\* as a comma and a space
WithComma(s) ==
  LET i == SetMin({k \in 1..Len(s) : s[k] \in Separators})
  IN  TrimRight(SubSeq(s, 1, i - 1)) \o Comma \o TrimLeft(SubSeq(s, i + 1, Len(s)))

\* C21: a pair written with a semicolon, a middle dot or a bullet, or with
\* whitespace around the separator, gives the outcome (isValid, coordinates,
\* error, metadata) of the same pair written "RA, DEC".
C21_Separators ==
  (Done /\ src.family = "pair" /\ input.chars # WithComma(input.chars))
    => result = Outcome(sanitizeCoordinates(options, StringInput(WithComma(input.chars))))

C21_Witness ==
  /\ Returned /\ src.family = "pair" /\ src.sep = BULLET
  /\ input.chars = Chars("12.5 ") \o <<BULLET>> \o Chars(" 45.5")
  /\ OutputFormatOf(options) = "aladin"
  /\ IsCoordinates /\ result.coordinates = Chars("12 30 00.000, +45 30 00.000")

\* the options are outputFormat f, precision p, validateRanges v and
\* strictMode s, all of them defined
OptionsAre(f, p, v, s) ==
  options = [outputFormat |-> f, precision |-> p, validateRanges |-> v, strictMode |-> s,
             undef |-> {}]

\* C22: the instance createPreset returns has the options of the preset and
\* the default of every option the preset does not name.
C22_Presets ==
  /\ preset = "aladin"  => OptionsAre("aladin", DefaultPrecision, TRUE, FALSE)
  /\ preset = "decimal" => OptionsAre("decimal", 6, TRUE, FALSE)
  /\ preset = "loose"   => OptionsAre("aladin", DefaultPrecision, FALSE, FALSE)
  /\ preset = "strict"  => OptionsAre("aladin", DefaultPrecision, TRUE, TRUE)

C22_Witness ==
  /\ preset = "decimal" /\ OptionsAre("decimal", 6, TRUE, FALSE)
  /\ Returned /\ IsCoordinates /\ src.family = "pair"
  /\ input.chars = Chars("12.5, -0.5") /\ result.coordinates = Chars("12.500000, -0.500000")

\* C23: for a declination d in [-90, 90] written as a decimal, dmsToDecimal
\* of the degrees, minutes and seconds decimalToDMS gives for d is d again,
\* also for d strictly between -1 and 0.
C23_Claim ==
  (Returned /\ IsCoordinates /\ result.metadata.dec.format = "decimal"
     /\ result.metadata.dec.decimal >= -90 * Unit /\ result.metadata.dec.decimal <= 90 * Unit)
    => /\ result.metadata.dec.whole = decimalToDMS(result.metadata.dec.decimal).degrees
       /\ dmsToDecimal(result.metadata.dec.whole, result.metadata.dec.minutes,
                       result.metadata.dec.seconds) = result.metadata.dec.decimal

\* the cleaned text reaches the parsing of its parts: it is not rejected by
\* the security check, not already valid, and recognised as coordinates
Reaches(clean) ==
  /\ ~containsMaliciousContent(clean)
  /\ ~isValidFormat(options, clean) /\ looksLikeCoordinates(clean)

ReachesParsing == IsString /\ ~input.falsy /\ Reaches(Clean)

RaParses  == parseRA(RaPartOf(Clean)).isValid
DecParses == parseDEC(DecPartOf(Clean)).isValid

FormatErrorReported(axis, part) ==
  /\ ~result.isValid
  /\ result.error.prefix = "Invalid coordinates: Invalid " \o axis \o " format: "
  /\ result.error.arg = part

RangeErrorOf(r, axis, value) ==
  /\ ~r.isValid
  /\ r.error.prefix = axis \o " out of range: "
  /\ r.error.num = value

\* r reports the range error of the RA when the RA is out of range, of the
\* DEC when only the DEC is
RaRangeFirst(r) ==
  IF OutRA THEN RangeErrorOf(r, "RA", src.ra)
  ELSE OutDEC => RangeErrorOf(r, "DEC", src.dec)

\* the result of a pair with these parts reports the RA before the DEC
RaFirst(raPart, decPart, raOk, decOk) ==
  IF ~raOk THEN FormatErrorReported("RA", raPart)
  ELSE IF ~decOk THEN FormatErrorReported("DEC", decPart)
  ELSE ValidateRangesOn(options) => RaRangeFirst(result)

PartsRaFirst(raPart, decPart) ==
  RaFirst(raPart, decPart, parseRA(raPart).isValid, parseDEC(decPart).isValid)

PairRaFirst(clean) == Reaches(clean) => PartsRaFirst(RaPartOf(clean), DecPartOf(clean))

TokensRaFirst(clean) ==
  (Reaches(clean) /\ ValidateRangesOn(options))
    => RaRangeFirst(parseSpaceSeparatedCoordinates(options, clean))

\* C24: RA is checked before DEC.  A pair one of whose parts does not parse
\* reports the RA format error when the RA part does not parse, and the DEC
\* format error only when it does, whatever the ranges; a pair out of range
\* (validateRanges on) reports the RA range error when the RA is out of
\* range, and the DEC range error only when it is not, and so does
\* parseSpaceSeparatedCoordinates for six numbers.
C24_RaFirst ==
  /\ (Returned /\ src.family = "pair") => PairRaFirst(cleanInput(input.chars))
  /\ (Returned /\ src.family = "tokens" /\ src.tokens = 6 /\ src.tag = "")
        => TokensRaFirst(cleanInput(input.chars))

C24_Witness ==
  /\ Returned /\ src.family = "pair" /\ ReachesParsing
  /\ ValidateRangesOn(options)
  /\ src.ra = 25 * Unit /\ RaParses /\ src.decNote = "garbled" /\ ~DecParses
  /\ FormatErrorReported("DEC", Chars("+12x 00 00"))

\* the text without its first '+'
WithoutPlus(s) ==
  LET i == SetMin({k \in 1..Len(s) : s[k] = "+"})
  IN  SubSeq(s, 1, i - 1) \o SubSeq(s, i + 1, Len(s))

\* C25: the sign of the DEC part is optional: a pair "RA, +DEC" that is
\* parsed as coordinates gives the same outcome without the '+'.
C25_Claim ==
  (Returned /\ src.family = "pair" /\ src.decSign = "+" /\ IsCoordinates)
    => result = Outcome(sanitizeCoordinates(options, StringInput(WithoutPlus(input.chars))))

\* the numbers parseSpaceSeparatedCoordinates finds in a text
TokensOf(clean) == MatchAll(NumberToken, clean, 1)

\* r is a coordinates result whose RA fields are the first three numbers
\* and whose DEC fields are the next three
SixTaken(r, tok) ==
  /\ r.isValid /\ r.metadata.inputFormat = "coordinates"
  /\ r.metadata.ra.whole = parseFloat(tok[1])
  /\ r.metadata.ra.minutes = parseFloat(tok[2])
  /\ r.metadata.ra.seconds = parseFloat(tok[3])
  /\ r.metadata.dec.whole = parseFloat(tok[4])
  /\ r.metadata.dec.minutes = parseFloat(tok[5])
  /\ r.metadata.dec.seconds = parseFloat(tok[6])

PassedAsName == ~Thrown /\ IsObjectName /\ result.error.null

TokenOutcome(tok) ==
  IF Len(tok) >= 6 THEN ~Thrown /\ SixTaken(result, tok) ELSE PassedAsName

\* the values of the first six numbers are out of range
SixOutOfRange(tok) ==
  \/ ~validateRA(hmsToDecimal(parseFloat(tok[1]), parseFloat(tok[2]), parseFloat(tok[3]))).null
  \/ ~validateDEC(dmsToDecimal(parseFloat(tok[4]), parseFloat(tok[5]), parseFloat(tok[6]))).null

\* toFixed rejects the configured precision
PrecisionRejected ==
  /\ OutputFormatOf(options) = "decimal"
  /\ "precision" \notin options.undef /\ options.precision \notin 0..100

TokenOutcomeInRange(tok) ==
  IF Len(tok) < 6 THEN PassedAsName
  ELSE IF ValidateRangesOn(options) /\ SixOutOfRange(tok) THEN PassedAsName
  ELSE IF PrecisionRejected THEN Thrown
  ELSE ~Thrown /\ SixTaken(result, tok)

\* the cleaned text reaches parseSpaceSeparatedCoordinates: it reaches the
\* parsing and combinedPattern does not match it
Unseparated(clean) ==
  Reaches(clean) /\ Match(combinedPattern, <<TRUE, FALSE, FALSE>>, clean) = <<>>

UnseparatedAsClaimed(clean) == Unseparated(clean) => TokenOutcome(TokensOf(clean))
UnseparatedInRange(clean)   == Unseparated(clean) => TokenOutcomeInRange(TokensOf(clean))

NamesPart(axis, part) == FormatErrorReported(axis, part) /\ result.error.suffix = ""

\* a text split at position i: what is before, and what is after
Before(s, i) == trim(SubSeq(s, 1, i - 1))
After(s, i)  == trim(SubSeq(s, i + 1, Len(s)))

\* a pair of parts one of which follows no grammar is rejected with the
\* format error of the RA part, or of the DEC part when the RA part
\* follows one
PartRejected(raPart, decPart, raOk, decOk) ==
  (~raOk \/ ~decOk) => NamesPart(IF raOk THEN "DEC" ELSE "RA", IF raOk THEN decPart ELSE raPart)

PartsRejected(raPart, decPart) ==
  PartRejected(raPart, decPart, parseRA(raPart).isValid, parseDEC(decPart).isValid)

\* the separators of the normalized text, and those of them that have text
\* on both sides
Commas(clean)      == {k \in 1..Len(clean) : clean[k] = ","}
InnerCommas(clean) == {k \in 2..(Len(clean) - 1) : clean[k] = ","}

\* the text is split by combinedPattern
IsSplit(clean) ==
  Reaches(clean) /\ Match(combinedPattern, <<TRUE, FALSE, FALSE>>, clean) # <<>>

\* split at its first separator
SplitFirst(clean) ==
  IsSplit(clean) => PartsRejected(Before(clean, SetMin(Commas(clean))),
                                  After(clean, SetMin(Commas(clean))))

\* split at its first separator that has text on both sides
SplitInner(clean) ==
  (Reaches(clean) /\ InnerCommas(clean) # {})
    => PartsRejected(Before(clean, SetMin(InnerCommas(clean))),
                     After(clean, SetMin(InnerCommas(clean))))

\* C27 (as claimed): an input that is split, at its first separator only,
\* and one part of which follows none of the three grammars of its axis, is
\* rejected with "Invalid coordinates: Invalid RA format: <part>" or
\* "... DEC format: <part>", the later separators staying in the DEC part.
C27_Original ==
  (Returned /\ IsString /\ ~input.falsy) => SplitFirst(cleanInput(input.chars))

\* C27 (amended): the split is made at the first separator of the
\* normalized text that has text on both sides, so that a leading
\* separator stays in the RA part; <part> is the part of the normalized
\* text.
C27_Amended ==
  (Returned /\ IsString /\ ~input.falsy) => SplitInner(cleanInput(input.chars))

C27_Witness ==
  /\ Returned /\ src.tag = "split" /\ ReachesParsing
  /\ input.chars = Chars("12h 34m 56s; +12:34:56; 2000")
  /\ NamesPart("DEC", Chars("+12:34:56,2000"))

AxisFormats == {"hms", "hms-compact", "dms", "dms-compact", "decimal"}

\* the axis object has isValid, true, and a format of the enumeration
AxisComplete(axis) ==
  /\ {"isValid", "format"} \subseteq axis.keys
  /\ axis.isValid
  /\ axis.format \in AxisFormats

\* C28: every result with inputFormat "coordinates" carries metadata.ra and
\* metadata.dec that have isValid = true and a format among hms,
\* hms-compact, dms, dms-compact and decimal, whichever path parsed it.
C28_Claim ==
  (Returned /\ IsCoordinates)
    => AxisComplete(result.metadata.ra) /\ AxisComplete(result.metadata.dec)

\* C29: cleanInput is idempotent: normalizing the normalized text of an
\* input gives the same text.
C29_Claim ==
  (Done /\ IsString) => cleanInput(Clean) = Clean

\* the text ends with t
EndsWith(s, t) == Len(s) >= Len(t) /\ SubSeq(s, Len(s) - Len(t) + 1, Len(s)) = t

\* the RA portion of "RA, DEC"
RaPortion(s) ==
  LET c == SetMin({i \in 1..Len(s) : s[i] = ","}) IN SubSeq(s, 1, c - 1)

\* an axis holds the typed minutes and seconds (hundredths) as they are
FieldsKept(axis, minutes, hundredths) ==
  /\ axis.isValid
  /\ axis.minutes = minutes * Unit
  /\ axis.seconds = hundredths * (Unit \div 100)

\* both parts parse, to the value whole + minutes/60 + seconds/3600, with
\* the typed minutes and seconds
LooseParsed(ra, dec) ==
  /\ FieldsKept(ra, src.raMinutes, src.raSeconds) /\ ra.decimal = src.ra
  /\ FieldsKept(dec, src.decMinutes, src.decSeconds) /\ dec.decimal = src.dec

\* the minutes and (whole) seconds as the aladin output ends an axis with
\* them, and as the hms-dms output does
AladinTail(minutes, hundredths) ==
  <<" ">> \o DigitsOf(minutes) \o <<" ">> \o PadLeft(DigitsOf(hundredths \div 100), 2, "0")
    \o Chars(".000")
SymbolTail(minutes, m, hundredths, s) ==
  <<" ">> \o DigitsOf(minutes) \o <<m, " ">> \o DigitsOf(hundredths \div 100)
    \o Chars(".000") \o <<s>>

LooseWritten(c) ==
  /\ OutputFormatOf(options) = "aladin"
       => /\ EndsWith(RaPortion(c), AladinTail(src.raMinutes, src.raSeconds))
          /\ EndsWith(DecPortion(c), AladinTail(src.decMinutes, src.decSeconds))
  /\ OutputFormatOf(options) = "hms-dms"
       => /\ EndsWith(RaPortion(c), SymbolTail(src.raMinutes, "m", src.raSeconds, "s"))
          /\ EndsWith(DecPortion(c), SymbolTail(src.decMinutes, APOS, src.decSeconds, QUOT))

\* the pair is accepted with its fields as typed; a precision toFixed rejects
\* makes the call throw
LooseAccepted ==
  IF PrecisionRejected THEN Thrown
  ELSE /\ ~Thrown /\ IsCoordinates
       /\ LooseParsed(result.metadata.ra, result.metadata.dec)
       /\ LooseWritten(result.coordinates)

LooseOutcome(clean) ==
  /\ LooseParsed(parseRA(RaPartOf(clean)), parseDEC(DecPartOf(clean)))
  /\ Reaches(clean)
       => IF ValidateRangesOn(options) /\ (OutRA \/ OutDEC)
          THEN ~Thrown /\ RangeErrorReported
          ELSE LooseAccepted

====
